---- MODULE Spec2Model ----
(* Model of the AI Image Analyzer: the Analysis Relay (server.js, the       *)
(* Express handlers GET /health and POST /analyze) and the Client Uploader  *)
(* (the browser script listed in PYTHON_GUIDE.md).                          *)
(*                                                                          *)
(* Strings the code inspects (upstream failure messages, MIME types) are    *)
(* sequences of one-character strings, so that String.prototype.includes    *)
(* is a real substring search.  Strings the code only emits (its own error  *)
(* texts) are TLA+ strings.  A JavaScript value is a tagged record.         *)
EXTENDS Integers, Sequences, FiniteSets, TLC

\* ------------------------------------------------------------------------
\* Bounds of the model
\* ------------------------------------------------------------------------

\* number of POST /analyze requests the relay receives in one behaviour
MaxRequests == 2

\* the wall clock (new Date()) runs from 0 to MaxTime
MaxTime == 1

RequestIds == 1..MaxRequests

\* ------------------------------------------------------------------------
\* JavaScript values
\* ------------------------------------------------------------------------

Undefined == [type |-> "undefined"]

Str(s) == [type |-> "string", value |-> s]

\* ToBoolean of the values modelled: undefined and "" are falsy
Truthy(v) == v.type = "string" /\ v.value # << >>

\* String.prototype.includes: sub occurs in s as a contiguous substring
Includes(s, sub) ==
    \E i \in 1..(Len(s) - Len(sub) + 1) : SubSeq(s, i, i + Len(sub) - 1) = sub

\* ------------------------------------------------------------------------
\* String literals of server.js
\* ------------------------------------------------------------------------

ImageJpeg == <<"i","m","a","g","e","/","j","p","e","g">>

ImagePng == <<"i","m","a","g","e","/","p","n","g">>

Placeholder ==
    <<"y","o","u","r","_","g","e","m","i","n","i","_","a","p","i">> \o
    <<"_","k","e","y","_","h","e","r","e">>

RealKey == <<"A","I","z","a">>

ApiKeyStr == <<"A","P","I"," ","k","e","y">>

QuotaStr == <<"q","u","o","t","a">>

SafetyStr == <<"S","A","F","E","T","Y">>

NoImageText == "No image provided"

NotConfiguredText == "GEMINI_API_KEY not configured. Please add your API key to the .env file"

GenericText == "Failed to analyze image"

AuthText == "Invalid API key. Please check your GEMINI_API_KEY in the .env file"

QuotaText == "API quota exceeded. Please check your Gemini API usage limits"

SafetyText == "Image content was flagged by safety filters"

\* ------------------------------------------------------------------------
\* Inputs: request bodies, credentials, outcomes of the external model
\* ------------------------------------------------------------------------

\* a base64 payload
Base64A == <<"Q","Q","=","=">>

\* values of process.env.GEMINI_API_KEY: unset, empty, placeholder, a key
Credentials == {Undefined, Str(<< >>), Str(Placeholder), Str(RealKey)}

\* a JSON body as express.json() parses it; an absent field reads undefined
MkBody(i, m, mt) == [image |-> i, mimeType |-> m, mime_type |-> mt]

ImageValues == {Undefined, Str(<< >>), Str(Base64A)}

MimeTypeValues == {Undefined, Str(<< >>), Str(ImagePng)}

ClientBodies == {MkBody(i, m, Undefined) : i \in ImageValues, m \in MimeTypeValues}

\* a rejection value: an Error with a message string, or a value whose
\* .message is undefined (throw "text", Promise.reject({code: 429}))
ErrorsOf(messages) ==
    { [message |-> Str(m)] : m \in messages } \cup { [message |-> Undefined] }

\* upstream failure messages: one of each class, two that match several
\* needles, and lower-case "safety", which matches none
UpstreamMessages ==
    { ApiKeyStr, QuotaStr, SafetyStr, <<"x">>, <<"s","a","f","e","t","y">>,
      QuotaStr \o ApiKeyStr, SafetyStr \o QuotaStr }

UpstreamErrors == ErrorsOf(UpstreamMessages)

\* pieces of upstream failure messages; "API Key" with a capital K does not
\* match the needle "API key"
Fragments ==
    { << >>, ApiKeyStr, QuotaStr, SafetyStr,
      <<"s","a","f","e","t","y">>, <<"A","P","I"," ","K","e","y">>, <<"x">> }

\* every concatenation of up to three pieces, in every order
AllUpstreamMessages ==
    { a \o b \o c : a \in Fragments, b \in Fragments, c \in Fragments }

AllUpstreamErrors == ErrorsOf(AllUpstreamMessages)

\* texts response.text() can return
ModelTexts == { << >>, <<"#"," ","A","\n">> }

\* ------------------------------------------------------------------------
\* State
\* ------------------------------------------------------------------------

VARIABLES
    GEMINI_API_KEY,   \* process.env.GEMINI_API_KEY
    now,              \* the wall clock read by new Date()
    req,              \* req[r]: the r-th POST /analyze request and its handler
    health,           \* the responses GET /health has sent, in order
    ui,               \* the uploader: script variables and the DOM it writes
    readers,          \* FileReaders of handleImageFile that have not fired yet
    call              \* call[c]: the c-th run of analyzeImage

relay == <<GEMINI_API_KEY, now, req, health>>

uploader == <<ui, readers, call>>

vars == <<GEMINI_API_KEY, now, req, health, ui, readers, call>>

NoBody == MkBody(Undefined, Undefined, Undefined)

NoParts == [data |-> Undefined, mimeType |-> Undefined]

NoError == [message |-> Undefined]

\* pc: "idle" not received yet; "awaiting" suspended in await generateContent;
\*     "done" the handler returned; "rejected" the handler's promise rejected;
\*     "closed" the client has taken the response
IdleRequest ==
    [ pc |-> "idle", body |-> NoBody, calls |-> 0, parts |-> NoParts,
      outcome |-> "none", text |-> << >>, error |-> NoError, res |-> << >> ]

\* an exchange that is over: the response was delivered and req, res are gone
ClosedRequest == [IdleRequest EXCEPT !.pc = "closed"]

InitRelay ==
    /\ now = 0
    /\ req = [r \in RequestIds |-> IdleRequest]
    /\ health = << >>

\* ------------------------------------------------------------------------
\* The uploader's state (PYTHON_GUIDE.md, the browser script)
\* ------------------------------------------------------------------------

\* number of runs of analyzeImage in one behaviour
MaxCalls == 2

\* number of FileReaders of handleImageFile pending at one time
MaxReaders == 2

CallIds == 1..MaxCalls

\* the files the user can pick or drop, by name
Files == {"a.png", "b.jpg", "c.txt"}

\* selectedImageFile = null, imageInput.value = ''
NoFile == "null"

TextPlain == <<"t","e","x","t","/","p","l","a","i","n">>

ImagePrefix == <<"i","m","a","g","e","/">>

\* the bytes of the files
FileBytes(f) ==
    CASE f = "a.png" -> <<65>>
      [] f = "b.jpg" -> <<66, 250, 255>>
      [] OTHER -> <<67, 62>>

\* the 64 digits of base64, digit d at place d + 1
Base64Alphabet ==
    << "A", "B", "C", "D", "E", "F", "G", "H", "I", "J", "K", "L", "M",
       "N", "O", "P", "Q", "R", "S", "T", "U", "V", "W", "X", "Y", "Z",
       "a", "b", "c", "d", "e", "f", "g", "h", "i", "j", "k", "l", "m",
       "n", "o", "p", "q", "r", "s", "t", "u", "v", "w", "x", "y", "z",
       "0", "1", "2", "3", "4", "5", "6", "7", "8", "9", "+", "/" >>

Base64Digit(d) == Base64Alphabet[d + 1]

\* the base64 text of a sequence of bytes: four digits for each three bytes,
\* the last group padded with "="
RECURSIVE Base64Encode(_)
Base64Encode(bytes) ==
    IF Len(bytes) = 0 THEN << >>
    ELSE IF Len(bytes) = 1
    THEN LET n == bytes[1] * 16
         IN  << Base64Digit(n \div 64), Base64Digit(n % 64), "=", "=" >>
    ELSE IF Len(bytes) = 2
    THEN LET n == (bytes[1] * 256 + bytes[2]) * 4
         IN  << Base64Digit(n \div 4096), Base64Digit((n \div 64) % 64),
                Base64Digit(n % 64), "=" >>
    ELSE LET n == bytes[1] * 65536 + bytes[2] * 256 + bytes[3]
         IN  << Base64Digit(n \div 262144), Base64Digit((n \div 4096) % 64),
                Base64Digit((n \div 64) % 64), Base64Digit(n % 64) >>
             \o Base64Encode(SubSeq(bytes, 4, Len(bytes)))

\* File.type
FileType(f) ==
    CASE f = "a.png" -> ImagePng
      [] f = "b.jpg" -> ImageJpeg
      [] OTHER -> TextPlain

\* the base64 encoding of the file's bytes
FileBase64(f) == Base64Encode(FileBytes(f))

\* FileReader.readAsDataURL: "data:<type>;base64,<payload>"
DataURL(f) ==
    <<"d","a","t","a",":">> \o FileType(f) \o <<";","b","a","s","e","6","4",",">>
        \o FileBase64(f)

\* String.prototype.startsWith
StartsWith(s, prefix) ==
    Len(s) >= Len(prefix) /\ SubSeq(s, 1, Len(prefix)) = prefix

\* the positions of sep in s
Positions(s, sep) == { i \in 1..Len(s) : s[i] = sep }

\* s.split(',')[0]: the text before the first comma
SplitSecond_First(s) ==
    LET commas == Positions(s, ",")
    IN  IF commas = {} THEN Str(s)
        ELSE Str(SubSeq(s, 1, (CHOOSE i \in commas : \A j \in commas : i <= j) - 1))

\* s.split(',')[1]: the text between the first comma and the second (or the
\* end); undefined when s has no comma
SplitSecond(s) ==
    LET commas == Positions(s, ",")
    IN  IF commas = {} THEN Undefined
        ELSE LET first == CHOOSE i \in commas : \A j \in commas : i <= j
                 rest == { i \in commas : i > first }
                 stop == IF rest = {} THEN Len(s) + 1
                         ELSE CHOOSE i \in rest : \A j \in rest : i <= j
             IN  Str(SubSeq(s, first + 1, stop - 1))

\* classList 'hidden' of the four sections: TRUE = hidden
View(u, p, r, e) == [upload |-> u, preview |-> p, results |-> r, error |-> e]

UploadView == View(FALSE, TRUE, TRUE, TRUE)

\* showPreview()
PreviewView == View(TRUE, FALSE, TRUE, TRUE)

\* showResults()
ResultsView == View(TRUE, TRUE, FALSE, TRUE)

\* showError()
ErrorView == View(TRUE, TRUE, TRUE, FALSE)

NoContent == [agentUsed |-> "", formatted |-> << >>]

\* the page as loaded shows the upload section
InitialView == UploadView

\* the copy button as loaded: its markup and its inline style
OriginalLabel == "Copy"

InitialCopyBtn == [innerHTML |-> OriginalLabel, background |-> "", color |-> ""]

\* let selectedImage = null; let selectedImageFile = null
\* writes: the texts of the navigator.clipboard.writeText calls not settled
\* timers: the originalText of each pending setTimeout callback, oldest first
\* alert: an alert box is open; copies: clicks on copyBtn so far
InitialUi ==
    [ selectedImage |-> Undefined,
      selectedImageFile |-> NoFile,
      imageInputValue |-> NoFile,
      previewImageSrc |-> Undefined,
      hidden |-> InitialView,
      analyzeBtnDisabled |-> FALSE,
      errorMessage |-> "",
      descriptionContent |-> NoContent,
      pickerOpen |-> FALSE,
      copyBtn |-> InitialCopyBtn,
      writes |-> << >>,
      timers |-> << >>,
      clipboard |-> << >>,
      alert |-> FALSE,
      copies |-> 0 ]

\* pc: "idle" not started; "reading" in await fileToBase64; "fetching" in
\*     await fetch; "done" returned
\* sent: whether the relay has received the request; request: its number
IdleCall ==
    [ pc |-> "idle", file |-> NoFile, body |-> NoBody,
      sent |-> FALSE, request |-> 0 ]

\* a run of analyzeImage that has returned: its closure is gone
DoneCall == [IdleCall EXCEPT !.pc = "done"]

InitUploader ==
    /\ ui = InitialUi
    /\ readers = [f \in Files |-> 0]
    /\ call = [c \in CallIds |-> IdleCall]

Init ==
    /\ GEMINI_API_KEY \in Credentials
    /\ InitRelay
    /\ InitUploader

\* ------------------------------------------------------------------------
\* server.js, app.post('/analyze')
\* ------------------------------------------------------------------------

\* a check for an absent field only: an empty string passes
ImageMissing_OnlyUndefined(image) == image = Undefined

\* if (!image)
ImageMissing(image) == ~Truthy(image)

\* a check that forgets the placeholder
KeyNotConfigured_NoPlaceholder(key) == ~Truthy(key)

\* if (!process.env.GEMINI_API_KEY || process.env.GEMINI_API_KEY === '<placeholder>')
KeyNotConfigured(key) == ~Truthy(key) \/ key = Str(Placeholder)

\* the default used whatever the request says
InlineMimeType_AlwaysDefault(mimeType) == Str(ImageJpeg)

\* mimeType || 'image/jpeg'
InlineMimeType(mimeType) == IF Truthy(mimeType) THEN mimeType ELSE Str(ImageJpeg)

\* the chain with its first two tests swapped
ClassifyError_QuotaFirst(message) ==
    IF Includes(message, QuotaStr) THEN QuotaText
    ELSE IF Includes(message, ApiKeyStr) THEN AuthText
    ELSE IF Includes(message, SafetyStr) THEN SafetyText
    ELSE GenericText

\* the if / else-if chain of the catch block
ClassifyError(message) ==
    IF Includes(message, ApiKeyStr) THEN AuthText
    ELSE IF Includes(message, QuotaStr) THEN QuotaText
    ELSE IF Includes(message, SafetyStr) THEN SafetyText
    ELSE GenericText

\* res.status(code).json(body); res.json(body) alone sends status 200
Response(code, body) == [status |-> code, body |-> body]

\* a handler that serves one model call at a time and turns a request away
\* while another one is waiting for the model
AnalyzeEntry_OneAtATime(rq, body, key) ==
    IF \E q \in RequestIds : req[q].pc = "awaiting"
    THEN [rq EXCEPT !.pc = "done", !.body = body,
                    !.res = Append(@, Response(500, [error |-> GenericText]))]
    ELSE IF ImageMissing(body.image)
    THEN [rq EXCEPT !.pc = "done", !.body = body,
                    !.res = Append(@, Response(400, [error |-> NoImageText]))]
    ELSE IF KeyNotConfigured(key)
    THEN [rq EXCEPT !.pc = "done", !.body = body,
                    !.res = Append(@, Response(500, [error |-> NotConfiguredText]))]
    ELSE [rq EXCEPT !.pc = "awaiting", !.body = body,
                    !.calls = @ + 1,
                    !.parts = [data |-> body.image,
                               mimeType |-> InlineMimeType(body.mimeType)]]

\* the synchronous part of the handler, from entry to the first await
AnalyzeEntry(rq, body, key) ==
    IF ImageMissing(body.image)
    THEN [rq EXCEPT !.pc = "done", !.body = body,
                    !.res = Append(@, Response(400, [error |-> NoImageText]))]
    ELSE IF KeyNotConfigured(key)
    THEN [rq EXCEPT !.pc = "done", !.body = body,
                    !.res = Append(@, Response(500, [error |-> NotConfiguredText]))]
    ELSE [rq EXCEPT !.pc = "awaiting", !.body = body,
                    !.calls = @ + 1,
                    !.parts = [data |-> body.image,
                               mimeType |-> InlineMimeType(body.mimeType)]]

\* String.prototype.trim, for the texts of ModelTexts
TrimEnd(text) ==
    IF text # << >> /\ text[Len(text)] = "\n" THEN SubSeq(text, 1, Len(text) - 1) ELSE text

\* a handler that tidies the text before returning it
AnalyzeSuccess_Trimmed(rq, text, t) ==
    [rq EXCEPT !.pc = "done", !.outcome = "resolved", !.text = text,
               !.res = Append(@, Response(200,
                   [success |-> TRUE, description |-> TrimEnd(text), timestamp |-> t]))]

\* the handler after generateContent / result.response / response.text()
\* delivered text
AnalyzeSuccess(rq, text, t) ==
    [rq EXCEPT !.pc = "done", !.outcome = "resolved", !.text = text,
               !.res = Append(@, Response(200,
                   [success |-> TRUE, description |-> text, timestamp |-> t]))]

\* a catch block that leaves the raw message out of the body
AnalyzeCatch_NoDetails(rq, error) ==
    IF error.message.type = "string"
    THEN [rq EXCEPT !.pc = "done", !.outcome = "failed", !.error = error,
                    !.res = Append(@, Response(500,
                        [error |-> ClassifyError(error.message.value)]))]
    ELSE [rq EXCEPT !.pc = "rejected", !.outcome = "failed", !.error = error]

\* a catch block that calls the model once more before giving up
AnalyzeCatch_Retry(rq, error) ==
    IF rq.calls < 2
    THEN [rq EXCEPT !.pc = "awaiting", !.calls = @ + 1]
    ELSE IF error.message.type = "string"
    THEN [rq EXCEPT !.pc = "done", !.outcome = "failed", !.error = error,
                    !.res = Append(@, Response(500,
                        [error |-> ClassifyError(error.message.value),
                         details |-> error.message.value]))]
    ELSE [rq EXCEPT !.pc = "rejected", !.outcome = "failed", !.error = error]

\* the catch block; error.message.includes throws a TypeError when
\* error.message is not a string, and that leaves the handler
AnalyzeCatch(rq, error) ==
    IF error.message.type = "string"
    THEN [rq EXCEPT !.pc = "done", !.outcome = "failed", !.error = error,
                    !.res = Append(@, Response(500,
                        [error |-> ClassifyError(error.message.value),
                         details |-> error.message.value]))]
    ELSE [rq EXCEPT !.pc = "rejected", !.outcome = "failed", !.error = error]

\* requests are numbered in the order the relay receives them
NextToArrive(r) == req[r].pc = "idle" /\ \A q \in 1..(r - 1) : req[q].pc # "idle"

\* a client posts a body to /analyze
PostAnalyze(r, bodies) ==
    /\ NextToArrive(r)
    /\ \E body \in bodies :
          req' = [req EXCEPT ![r] = AnalyzeEntry(req[r], body, GEMINI_API_KEY)]
    /\ UNCHANGED <<GEMINI_API_KEY, now, health, uploader>>

\* the external model answers with one of texts
GenerateContentResolveWith(r, texts) ==
    /\ req[r].pc = "awaiting"
    /\ \E text \in texts :
          req' = [req EXCEPT ![r] = AnalyzeSuccess(req[r], text, now)]
    /\ UNCHANGED <<GEMINI_API_KEY, now, health, uploader>>

\* the external model answers
GenerateContentResolve(r) == GenerateContentResolveWith(r, ModelTexts)

\* the external model call fails
GenerateContentReject(r, errors) ==
    /\ req[r].pc = "awaiting"
    /\ \E error \in errors :
          req' = [req EXCEPT ![r] = AnalyzeCatch(req[r], error)]
    /\ UNCHANGED <<GEMINI_API_KEY, now, health, uploader>>

\* ------------------------------------------------------------------------
\* server.js, app.get('/health')
\* ------------------------------------------------------------------------

\* a health check that reports the credential
HealthBody_NeedsKey(t) ==
    [status |-> IF KeyNotConfigured(GEMINI_API_KEY) THEN "ERROR" ELSE "OK",
     message |-> "AI Image Analyzer API is running", timestamp |-> t]

\* res.json({status: 'OK', message: ..., timestamp: new Date().toISOString()})
HealthBody(t) ==
    [status |-> "OK", message |-> "AI Image Analyzer API is running", timestamp |-> t]

\* the number of /health calls kept in the log
MaxHealth == 2

GetHealth ==
    /\ Len(health) < MaxHealth
    /\ health' = Append(health, Response(200, HealthBody(now)))
    /\ UNCHANGED <<GEMINI_API_KEY, now, req, uploader>>

\* time passes
Tick ==
    /\ now < MaxTime
    /\ now' = now + 1
    /\ UNCHANGED <<GEMINI_API_KEY, req, health, uploader>>

Next ==
    \/ \E r \in RequestIds : PostAnalyze(r, ClientBodies)
    \/ \E r \in RequestIds : GenerateContentResolve(r)
    \/ \E r \in RequestIds : GenerateContentReject(r, UpstreamErrors)
    \/ Tick

Spec == Init /\ [][Next]_vars

\* ------------------------------------------------------------------------
\* GET /health interleaved with POST /analyze
\* ------------------------------------------------------------------------

HealthBodies == { MkBody(i, Undefined, Undefined) : i \in ImageValues }

HealthErrors == ErrorsOf({QuotaStr})

NextHealth ==
    \/ GetHealth
    \/ Tick
    \/ \E r \in RequestIds : PostAnalyze(r, HealthBodies)
    \/ \E r \in RequestIds : GenerateContentResolve(r)
    \/ \E r \in RequestIds : GenerateContentReject(r, HealthErrors)

SpecHealth == Init /\ [][NextHealth]_vars

\* ------------------------------------------------------------------------
\* The classifier on its own: one request with an image and a configured
\* key, failing with every message of AllUpstreamMessages
\* ------------------------------------------------------------------------

ClassifyBodies == { MkBody(Str(Base64A), m, Undefined) : m \in MimeTypeValues }

InitClassify ==
    /\ GEMINI_API_KEY = Str(RealKey)
    /\ InitRelay
    /\ InitUploader

NextClassify ==
    \/ PostAnalyze(1, ClassifyBodies)
    \/ GenerateContentReject(1, AllUpstreamErrors)

SpecClassify == InitClassify /\ [][NextClassify]_vars

\* ------------------------------------------------------------------------
\* The uploader (PYTHON_GUIDE.md, the browser script)
\* ------------------------------------------------------------------------

\* new Error(errorData.detail || 'Failed to analyze image')
ThrownText == "Failed to analyze image"

\* showError(error.message || '...')
FallbackText ==
    "Failed to analyze the image. Please make sure the server is running and try again."

\* the message of the TypeError a failed fetch rejects with
FetchFailedText == "Failed to fetch"

\* the message of the TypeError of null.type
NullTypeText == "Cannot read properties of null (reading 'type')"

\* the message of the TypeError of formatDescription(undefined)
UndefinedSplitText == "Cannot read properties of undefined (reading 'split')"

\* the message of the SyntaxError response.json() rejects with
UnreadableText == "Unexpected token < in JSON at position 0"

\* displayResults(description, agentUsed = 'LangChain + Gemini')
DefaultAgent == "LangChain + Gemini"

\* the section each control sits in
UploadControls(u) == ~u.hidden.upload

PreviewControls(u) == ~u.hidden.preview

ResultsControls(u) == ~u.hidden.results

ErrorControls(u) == ~u.hidden.error

\* the reset action is offered in the Results and in the Error state
ResetControls(u) == ~u.hidden.results \/ ~u.hidden.error

PendingReaders == readers["a.png"] + readers["b.jpg"] + readers["c.txt"]

\* a handler without the type test
IsImage_Any(f) == TRUE

\* file.type.startsWith('image/')
IsImage(f) == StartsWith(FileType(f), ImagePrefix)

\* handleImageFile, up to reader.readAsDataURL
HandleImageFile(u, f) == [u EXCEPT !.selectedImageFile = f]

\* showPreview() that leaves the error section as it is
ShowPreview_KeepsError(u) ==
    [u EXCEPT !.hidden.upload = TRUE, !.hidden.preview = FALSE,
              !.hidden.results = TRUE]

\* showPreview()
ShowPreview(u) == [u EXCEPT !.hidden = PreviewView]

\* showResults()
ShowResults(u) == [u EXCEPT !.hidden = ResultsView]

\* hideError()
HideError(u) == [u EXCEPT !.hidden.error = TRUE]

\* showError that sets the message only
ShowError_OnlyMessage(u, message) == [u EXCEPT !.errorMessage = message]

\* showError(message)
ShowError(u, message) == [u EXCEPT !.errorMessage = message, !.hidden = ErrorView]

\* ------------------------------------------------------------------------
\* formatDescription
\* ------------------------------------------------------------------------

\* what \s and trim() take for white space, as far as the texts have it
WhiteSpace == {" ", "\t", "\r"}

Digits == {"0", "1", "2", "3", "4", "5", "6", "7", "8", "9"}

\* the length of the longest prefix of s made of characters of set
LeadingRun(s, set) ==
    CHOOSE n \in 0..Len(s) :
        /\ \A i \in 1..n : s[i] \in set
        /\ n = Len(s) \/ s[n + 1] \notin set

Drop(s, n) == SubSeq(s, n + 1, Len(s))

\* s with its leading white space removed
TrimStart(s) == Drop(s, LeadingRun(s, WhiteSpace))

\* p.trim() is the empty string
Blank(p) == LeadingRun(p, WhiteSpace) = Len(p)

\* text.split('\n')
RECURSIVE SplitLines(_)
SplitLines(text) ==
    LET breaks == Positions(text, "\n")
    IN  IF breaks = {} THEN <<text>>
        ELSE LET first == CHOOSE i \in breaks : \A j \in breaks : i <= j
             IN  <<SubSeq(text, 1, first - 1)>> \o SplitLines(Drop(text, first))

\* the positions at which "**" starts in s, from position from on
Stars(s, from) == { i \in from..(Len(s) - 1) : s[i] = "*" /\ s[i + 1] = "*" }

Least(set) == CHOOSE i \in set : \A j \in set : i <= j

\* p.replace(/\*\*(.*?)\*\*/g, '<strong ...>$1</strong>'): the pairs of "**"
\* from the left, each with the shortest text between; the two tags are one
\* element each
RECURSIVE ReplaceBold(_)
ReplaceBold(p) ==
    IF Stars(p, 1) = {} THEN p
    ELSE LET open == Least(Stars(p, 1))
         IN  IF Stars(p, open + 2) = {} THEN p
             ELSE LET close == Least(Stars(p, open + 2))
                  IN  SubSeq(p, 1, open - 1) \o <<"<strong>">>
                        \o SubSeq(p, open + 2, close - 1) \o <<"</strong>">>
                        \o ReplaceBold(Drop(p, close + 1))

\* p.replace(/^#+\s*/, '')
StripHashes(p) ==
    IF p # << >> /\ p[1] = "#"
    THEN TrimStart(Drop(p, LeadingRun(p, {"#"})))
    ELSE p

\* p.replace(/^[-*]\s*/, '')
StripBullet(p) ==
    IF p # << >> /\ p[1] \in {"-", "*"} THEN TrimStart(Drop(p, 1)) ELSE p

\* /^\d+\./ matches p
Numbered(p) ==
    LET n == LeadingRun(p, Digits) IN n > 0 /\ n < Len(p) /\ p[n + 1] = "."

\* p.replace(/^\d+\.\s*/, '')
StripNumber(p) ==
    IF Numbered(p) THEN TrimStart(Drop(p, LeadingRun(p, Digits) + 1)) ELSE p

\* a callback that looks for bold text before it looks for a heading
FormatLine_BoldFirst(p) ==
    LET t == TrimStart(p)
    IN  IF Stars(p, 1) # {}
        THEN [tag |-> "p", content |-> ReplaceBold(p)]
        ELSE IF t[1] = "#"
        THEN [tag |-> "h4", content |-> StripHashes(p)]
        ELSE IF t[1] \in {"-", "*"} \/ Numbered(t)
        THEN [tag |-> "li", content |-> StripNumber(StripBullet(p))]
        ELSE [tag |-> "p", content |-> p]

\* the element a line p becomes: the first case that matches
FormatLine(p) ==
    LET t == TrimStart(p)
    IN  IF t[1] = "#"
        THEN [tag |-> "h4", content |-> StripHashes(p)]
        ELSE IF Stars(p, 1) # {}
        THEN [tag |-> "p", content |-> ReplaceBold(p)]
        ELSE IF t[1] \in {"-", "*"} \/ Numbered(t)
        THEN [tag |-> "li", content |-> StripNumber(StripBullet(p))]
        ELSE [tag |-> "p", content |-> p]

\* formatDescription(text): the elements of the lines that are not blank,
\* in order
FormatDescription(text) ==
    LET paragraphs == SelectSeq(SplitLines(text), LAMBDA p : ~Blank(p))
    IN  [i \in 1..Len(paragraphs) |-> FormatLine(paragraphs[i])]

\* displayResults: descriptionContent takes the badge with the agent's name
\* and the formatted description, and the results section shows
DisplayResults(u, description, agentUsed) ==
    ShowResults(
        [u EXCEPT !.descriptionContent =
                      [agentUsed |-> IF agentUsed = Undefined THEN DefaultAgent
                                                              ELSE agentUsed,
                       formatted |-> FormatDescription(description)]])

\* a finally block that leaves the button disabled
Finally_KeepsDisabled(u) == u

\* the finally block of analyzeImage
Finally(u) == [u EXCEPT !.analyzeBtnDisabled = FALSE]

\* resetApp that only switches the sections
ResetApp_KeepsFile(u) == [u EXCEPT !.imageInputValue = NoFile, !.hidden = UploadView]

\* resetApp()
ResetApp(u) ==
    [u EXCEPT !.selectedImage = Undefined, !.selectedImageFile = NoFile,
              !.imageInputValue = NoFile, !.hidden = UploadView]

\* the field of a parsed JSON body, undefined when absent
Field(body, k) == IF k \in DOMAIN body THEN body[k] ELSE Undefined

\* JSON.stringify({image: base64Image, mime_type: selectedImageFile.type});
\* a field whose value is undefined is left out
FetchBody(base64Image, type) == MkBody(base64Image, Undefined, Str(type))

\* uploadBtn / changeBtn click: imageInput.click() opens the file picker
OpenPicker ==
    /\ UploadControls(ui) \/ PreviewControls(ui)
    /\ ~ui.pickerOpen
    /\ ui' = [ui EXCEPT !.pickerOpen = TRUE]
    /\ UNCHANGED <<relay, readers, call>>

\* the picker is closed without a choice: no change event
CancelPicker ==
    /\ ui.pickerOpen
    /\ ui' = [ui EXCEPT !.pickerOpen = FALSE]
    /\ UNCHANGED <<relay, readers, call>>

\* the user picks f: a change event fires when the input's file changes,
\* and handleImageSelect runs
PickFile(f) ==
    /\ ui.pickerOpen
    /\ PendingReaders < MaxReaders
    /\ IF f # ui.imageInputValue /\ IsImage(f)
       THEN /\ ui' = [HandleImageFile(ui, f) EXCEPT !.pickerOpen = FALSE,
                                                    !.imageInputValue = f]
            /\ readers' = [readers EXCEPT ![f] = @ + 1]
       ELSE /\ ui' = [ui EXCEPT !.pickerOpen = FALSE, !.imageInputValue = f]
            /\ UNCHANGED readers
    /\ UNCHANGED <<relay, call>>

\* the drop handler of the upload card, files[0] = f
DropFile(f) ==
    /\ UploadControls(ui)
    /\ PendingReaders < MaxReaders
    /\ IF IsImage(f)
       THEN /\ ui' = HandleImageFile(ui, f)
            /\ readers' = [readers EXCEPT ![f] = @ + 1]
       ELSE UNCHANGED <<ui, readers>>
    /\ UNCHANGED <<relay, call>>

\* reader.onload of handleImageFile
ReaderOnload(f) ==
    /\ readers[f] > 0
    /\ readers' = [readers EXCEPT ![f] = @ - 1]
    /\ ui' = ShowPreview([ui EXCEPT !.selectedImage = Str(DataURL(f)),
                                    !.previewImageSrc = Str(DataURL(f))])
    /\ UNCHANGED <<relay, call>>

\* the read of handleImageFile fails: the reader has no onerror handler
ReaderOnerror(f) ==
    /\ readers[f] > 0
    /\ readers' = [readers EXCEPT ![f] = @ - 1]
    /\ UNCHANGED <<relay, ui, call>>

\* calls are numbered in the order they start
NextToStart(c) == call[c].pc = "idle" /\ \A d \in 1..(c - 1) : call[d].pc # "idle"

\* analyzeBtn click: analyzeImage up to await fileToBase64(selectedImageFile);
\* a disabled button gets no click, and with no file the function returns
AnalyzeClick(c) ==
    /\ NextToStart(c)
    /\ PreviewControls(ui)
    /\ ~ui.analyzeBtnDisabled
    /\ ui.selectedImageFile # NoFile
    /\ ui' = [ui EXCEPT !.analyzeBtnDisabled = TRUE]
    /\ call' = [call EXCEPT ![c] = [@ EXCEPT !.pc = "reading",
                                             !.file = ui.selectedImageFile]]
    /\ UNCHANGED <<relay, readers>>

\* reader.onload of fileToBase64, then the call of fetch; reading
\* selectedImageFile.type throws when the file was reset meanwhile
FileToBase64Onload(c) ==
    /\ call[c].pc = "reading"
    /\ IF ui.selectedImageFile = NoFile
       THEN /\ ui' = Finally(ShowError(ui, NullTypeText))
            /\ call' = [call EXCEPT ![c] = DoneCall]
       ELSE /\ call' = [call EXCEPT ![c] = [@ EXCEPT !.pc = "fetching",
                           !.body = FetchBody(SplitSecond(DataURL(call[c].file)),
                                              FileType(ui.selectedImageFile))]]
            /\ UNCHANGED ui
    /\ UNCHANGED <<relay, readers>>

\* reader.onerror of fileToBase64 rejects with the event, which has no message
FileToBase64Onerror(c) ==
    /\ call[c].pc = "reading"
    /\ ui' = Finally(ShowError(ui, FallbackText))
    /\ call' = [call EXCEPT ![c] = DoneCall]
    /\ UNCHANGED <<relay, readers>>

\* the relay receives the request of fetch
UploaderPost(c, r) ==
    /\ call[c].pc = "fetching"
    /\ ~call[c].sent
    /\ NextToArrive(r)
    /\ req' = [req EXCEPT ![r] = AnalyzeEntry(req[r], call[c].body, GEMINI_API_KEY)]
    /\ call' = [call EXCEPT ![c] = [@ EXCEPT !.sent = TRUE, !.request = r]]
    /\ UNCHANGED <<GEMINI_API_KEY, now, health, ui, readers>>

\* fetch rejects: the relay could not be reached, or it closed a connection
\* whose handler ended without a response
FetchReject(c) ==
    /\ call[c].pc = "fetching"
    /\ call[c].sent => req[call[c].request].pc = "rejected"
    /\ ui' = Finally(ShowError(ui, FetchFailedText))
    /\ call' = [call EXCEPT ![c] = DoneCall]
    /\ req' = IF call[c].sent
              THEN [req EXCEPT ![call[c].request] = ClosedRequest]
              ELSE req
    /\ UNCHANGED <<GEMINI_API_KEY, now, health, readers>>

\* what analyzeImage does with the response of the relay
OnResponse(u, response) ==
    IF response.status \notin 200..299
    THEN LET detail == Field(response.body, "detail")
         IN  Finally(ShowError(u, IF detail = Undefined THEN ThrownText ELSE detail))
    ELSE IF "description" \notin DOMAIN response.body
    THEN Finally(ShowError(u, UndefinedSplitText))
    ELSE Finally(DisplayResults(u, response.body.description,
                                   Field(response.body, "agent_used")))

\* fetch resolves with the relay's response
FetchResolve(c) ==
    /\ call[c].pc = "fetching"
    /\ call[c].sent
    /\ req[call[c].request].pc = "done"
    /\ ui' = OnResponse(ui, req[call[c].request].res[1])
    /\ call' = [call EXCEPT ![c] = DoneCall]
    /\ req' = [req EXCEPT ![call[c].request] = ClosedRequest]
    /\ UNCHANGED <<GEMINI_API_KEY, now, health, readers>>

\* fetch resolves with a response whose body is not JSON (the page a server
\* in front of the handler answers with): response.json() rejects with a
\* SyntaxError, for an ok status as for any other
FetchResolveUnreadable(c) ==
    /\ call[c].pc = "fetching"
    /\ ~call[c].sent
    /\ ui' = Finally(ShowError(ui, UnreadableText))
    /\ call' = [call EXCEPT ![c] = DoneCall]
    /\ UNCHANGED <<relay, readers>>

\* a retry that starts over
RetryClick_Resets ==
    /\ ErrorControls(ui)
    /\ ui' = ShowPreview(HideError([ui EXCEPT !.selectedImageFile = NoFile]))
    /\ UNCHANGED <<relay, readers, call>>

\* retryBtn click: hideError(); showPreview()
RetryClick ==
    /\ ErrorControls(ui)
    /\ ui' = ShowPreview(HideError(ui))
    /\ UNCHANGED <<relay, readers, call>>

\* newAnalysisBtn click: resetApp()
NewAnalysisClick ==
    /\ ResetControls(ui)
    /\ ui' = ResetApp(ui)
    /\ UNCHANGED <<relay, readers, call>>

\* the outcomes of the external model for the uploader's requests
UploaderErrors == ErrorsOf({QuotaStr})

NextUploader ==
    \/ OpenPicker
    \/ CancelPicker
    \/ \E f \in Files : PickFile(f)
    \/ \E f \in Files : DropFile(f)
    \/ \E f \in Files : ReaderOnload(f)
    \/ \E f \in Files : ReaderOnerror(f)
    \/ \E c \in CallIds : AnalyzeClick(c)
    \/ \E c \in CallIds : FileToBase64Onload(c)
    \/ \E c \in CallIds : FileToBase64Onerror(c)
    \/ \E c \in CallIds : \E r \in RequestIds : UploaderPost(c, r)
    \/ \E c \in CallIds : FetchReject(c)
    \/ \E c \in CallIds : FetchResolve(c)
    \/ \E c \in CallIds : FetchResolveUnreadable(c)
    \/ RetryClick
    \/ NewAnalysisClick
    \/ \E r \in RequestIds : GenerateContentResolve(r)
    \/ \E r \in RequestIds : GenerateContentReject(r, UploaderErrors)

\* the relay runs without a credential or with one
UploaderCredentials == {Undefined, Str(RealKey)}

InitEndToEnd ==
    /\ GEMINI_API_KEY \in UploaderCredentials
    /\ InitRelay
    /\ InitUploader

SpecUploader == InitEndToEnd /\ [][NextUploader]_vars

\* a FileReader that was started fires load or error
ReaderCompletes == \E f \in Files : ReaderOnload(f) \/ ReaderOnerror(f)

SpecUploaderFair == SpecUploader /\ WF_vars(ReaderCompletes)

\* ------------------------------------------------------------------------
\* One analysis from the drop of a.png to the Results section, the model
\* answering with every text made of a few pieces of markup
\* ------------------------------------------------------------------------

FormatPieces ==
    { <<"#">>, <<"*", "*">>, <<" ">>, <<"a">>, <<"\n">>, <<"-">>, <<"1", ".">> }

\* the number of pieces in a text
MaxPieces == 4

RECURSIVE Concats(_)
Concats(n) ==
    IF n = 0 THEN { << >> }
    ELSE LET shorter == Concats(n - 1)
         IN  shorter \cup { t \o piece : t \in shorter, piece \in FormatPieces }

FormatTexts == Concats(MaxPieces)

InitFormat ==
    /\ GEMINI_API_KEY = Str(RealKey)
    /\ InitRelay
    /\ InitUploader

NextFormat ==
    \/ DropFile("a.png")
    \/ ReaderOnload("a.png")
    \/ AnalyzeClick(1)
    \/ FileToBase64Onload(1)
    \/ UploaderPost(1, 1)
    \/ GenerateContentResolveWith(1, FormatTexts)
    \/ FetchResolve(1)

SpecFormat == InitFormat /\ [][NextFormat]_vars

\* selections only, every read succeeding
NextSelect ==
    \/ OpenPicker
    \/ CancelPicker
    \/ \E f \in Files : PickFile(f)
    \/ \E f \in Files : DropFile(f)
    \/ \E f \in Files : ReaderOnload(f)

SpecSelect == InitEndToEnd /\ [][NextSelect]_vars

\* ------------------------------------------------------------------------
\* PYTHON_GUIDE.md, copyDescription
\* ------------------------------------------------------------------------

\* number of clicks on copyBtn in one behaviour
MaxCopies == 3

CopiedLabel == "Copied!"

\* descriptionContent.innerText: the badge and the elements without tags
InnerText(content) ==
    <<content.agentUsed>>
        \o [i \in 1..Len(content.formatted) |->
               SelectSeq(content.formatted[i].content,
                         LAMBDA ch : ch \notin {"<strong>", "</strong>"})]

\* s without its i-th element
Without(s, i) == SubSeq(s, 1, i - 1) \o SubSeq(s, i + 1, Len(s))

\* copyBtn click: copyDescription up to its await
CopyClick ==
    /\ ResultsControls(ui)
    /\ ui.copies < MaxCopies
    /\ ui' = [ui EXCEPT !.writes = Append(@, InnerText(ui.descriptionContent)),
                        !.copies = @ + 1]
    /\ UNCHANGED <<relay, readers, call>>

\* a callback that restores the markup the page was loaded with
SetTimeout_Original(u) == [u EXCEPT !.timers = Append(@, OriginalLabel)]

\* setTimeout(() => { copyBtn.innerHTML = originalText; ... }, 2000) with
\* const originalText = copyBtn.innerHTML
SetTimeout(u) == [u EXCEPT !.timers = Append(@, u.copyBtn.innerHTML)]

\* writeText resolved: the success feedback and its timer
ClipboardResolve ==
    /\ \E i \in 1..Len(ui.writes) :
          ui' = [SetTimeout(ui) EXCEPT
                    !.clipboard = ui.writes[i],
                    !.writes = Without(@, i),
                    !.copyBtn = [innerHTML |-> CopiedLabel,
                                 background |-> "var(--success-gradient)",
                                 color |-> "white"]]
    /\ UNCHANGED <<relay, readers, call>>

\* writeText rejected: the catch block
ClipboardReject ==
    /\ \E i \in 1..Len(ui.writes) :
          ui' = [ui EXCEPT !.writes = Without(@, i), !.alert = TRUE]
    /\ UNCHANGED <<relay, readers, call>>

\* the oldest timer fires: timers of one delay fire in the order they were set
TimerFire ==
    /\ ui.timers # << >>
    /\ ui' = [ui EXCEPT !.copyBtn = [innerHTML |-> Head(ui.timers),
                                     background |-> "", color |-> ""],
                        !.timers = Tail(@)]
    /\ UNCHANGED <<relay, readers, call>>

\* the user closes the alert box
AlertOk ==
    /\ ui.alert
    /\ ui' = [ui EXCEPT !.alert = FALSE]
    /\ UNCHANGED <<relay, readers, call>>

\* one analysis, then copies of its result; nothing runs while an alert is open
NextCopy ==
    \/ ~ui.alert /\ DropFile("a.png")
    \/ ~ui.alert /\ ReaderOnload("a.png")
    \/ ~ui.alert /\ AnalyzeClick(1)
    \/ ~ui.alert /\ FileToBase64Onload(1)
    \/ ~ui.alert /\ UploaderPost(1, 1)
    \/ ~ui.alert /\ GenerateContentResolve(1)
    \/ ~ui.alert /\ FetchResolve(1)
    \/ ~ui.alert /\ CopyClick
    \/ ~ui.alert /\ ClipboardResolve
    \/ ~ui.alert /\ ClipboardReject
    \/ ~ui.alert /\ TimerFire
    \/ AlertOk

SpecCopy == InitFormat /\ [][NextCopy]_vars

\* ------------------------------------------------------------------------
\* Properties of the relay
\* ------------------------------------------------------------------------

Received(r) == req[r].pc # "idle"

\* the body has no image field, or an empty one
NoImage(r) == req[r].body.image \in {Undefined, Str(<< >>)}

\* the credential is unset (or set to nothing), or is the placeholder
NoCredential == GEMINI_API_KEY \in {Undefined, Str(<< >>), Str(Placeholder)}

Range(s) == { s[i] : i \in DOMAIN s }

\* sub is s[a+1..b] for some a <= b
Contains(s, sub) ==
    \E a \in 0..Len(s) : \E b \in a..Len(s) : SubSeq(s, a + 1, b) = sub

\* C1: a request whose body has no image, or an empty image, is answered
\* with 400 "No image provided" and causes no call to the external model,
\* whatever the credential
C1_NoImage400 ==
    \A r \in RequestIds :
        (Received(r) /\ NoImage(r)) =>
            /\ req[r].pc = "done"
            /\ req[r].res = << Response(400, [error |-> NoImageText]) >>
            /\ req[r].calls = 0
            /\ req[r].parts = NoParts

C1_Witness ==
    \E r \in RequestIds :
        /\ GEMINI_API_KEY = Str(Placeholder)
        /\ req[r].body.image = Str(<< >>)
        /\ req[r].pc = "done"
        /\ req[r].res[1].status = 400

\* C2 as stated: every request received while the credential is unset or
\* the placeholder is answered with 500 and never reaches the model
C2_Always500 ==
    \A r \in RequestIds :
        (Received(r) /\ GEMINI_API_KEY \in {Undefined, Str(Placeholder)}) =>
            /\ req[r].pc = "done"
            /\ Len(req[r].res) = 1
            /\ req[r].res[1].status = 500
            /\ req[r].calls = 0

\* C2 amended: while the credential is unset or the placeholder, no request
\* reaches the model; a request with a non-empty image is answered with 500,
\* a request with no image or an empty image with 400
C2_NoCredential ==
    \A r \in RequestIds :
        (Received(r) /\ NoCredential) =>
            /\ req[r].calls = 0
            /\ req[r].parts = NoParts
            /\ req[r].pc = "done"
            /\ Len(req[r].res) = 1
            /\ ~NoImage(r) => req[r].res[1] = Response(500, [error |-> NotConfiguredText])
            /\ NoImage(r) => req[r].res[1].status = 400

C2_Witness ==
    \E r \in RequestIds :
        /\ GEMINI_API_KEY = Str(Placeholder)
        /\ req[r].body.image = Str(Base64A)
        /\ req[r].pc = "done"
        /\ req[r].res[1].status = 500
        /\ req[r].calls = 0

\* C3: the user-facing error of an upstream failure is chosen by first match:
\* the auth text if the message contains "API key", else the quota text if
\* it contains "quota", else the safety text if it contains "SAFETY", else
\* the generic text
C3_FirstMatch ==
    \A r \in RequestIds :
        (req[r].outcome = "failed" /\ req[r].error.message.type = "string") =>
            LET m == req[r].error.message.value
                a == Contains(m, ApiKeyStr)
                q == Contains(m, QuotaStr)
                s == Contains(m, SafetyStr)
            IN  /\ req[r].pc = "done"
                /\ Len(req[r].res) = 1
                /\ a => req[r].res[1].body.error = AuthText
                /\ (~a /\ q) => req[r].res[1].body.error = QuotaText
                /\ (~a /\ ~q /\ s) => req[r].res[1].body.error = SafetyText
                /\ (~a /\ ~q /\ ~s) => req[r].res[1].body.error = GenericText

C3_Witness ==
    \E r \in RequestIds :
        /\ req[r].outcome = "failed"
        /\ req[r].error = [message |-> Str(SafetyStr \o QuotaStr \o ApiKeyStr)]
        /\ req[r].res[1].body.error = AuthText

\* C4: every failure of the external model call is answered with 500 and a
\* details field equal to the raw failure message
C4_EveryFailure500 ==
    \A r \in RequestIds :
        req[r].outcome = "failed" =>
            /\ req[r].pc = "done"
            /\ Len(req[r].res) = 1
            /\ req[r].res[1].status = 500
            /\ "details" \in DOMAIN req[r].res[1].body
            /\ req[r].error.message = Str(req[r].res[1].body.details)

\* C5 as stated: every error response carries an error message and a
\* details field
C5_ErrorAndDetails ==
    \A r \in RequestIds : \A i \in 1..Len(req[r].res) :
        req[r].res[i].status >= 400 =>
            {"error", "details"} \subseteq DOMAIN req[r].res[i].body

\* C5 amended: every error response carries an error message; the responses
\* to an upstream failure also carry details, the validation and the
\* configuration error responses do not
C5_ErrorAlwaysDetailsUpstream ==
    \A r \in RequestIds : \A i \in 1..Len(req[r].res) :
        req[r].res[i].status >= 400 =>
            /\ "error" \in DOMAIN req[r].res[i].body
            /\ req[r].outcome = "failed" =>
                  /\ "details" \in DOMAIN req[r].res[i].body
                  /\ Str(req[r].res[i].body.details) = req[r].error.message
            /\ req[r].outcome # "failed" => "details" \notin DOMAIN req[r].res[i].body

C5_Witness ==
    \E r \in RequestIds :
        /\ req[r].outcome = "failed"
        /\ Len(req[r].res) = 1
        /\ req[r].res[1].body = [error |-> QuotaText, details |-> QuotaStr]

\* C6: whatever way the external call fails, the request gets exactly one
\* response and no error leaves the handler
C6_ExactlyOneResponse ==
    \A r \in RequestIds :
        (Received(r) /\ req[r].pc # "awaiting") =>
            /\ req[r].pc = "done"
            /\ Len(req[r].res) = 1

\* C7: when the model call succeeds the response is 200 with the body
\* {success: true, description, timestamp}, the description being the text
\* the model returned
C7_SuccessBody ==
    \A r \in RequestIds :
        req[r].outcome = "resolved" =>
            /\ req[r].pc = "done"
            /\ Len(req[r].res) = 1
            /\ req[r].res[1].status = 200
            /\ DOMAIN req[r].res[1].body = {"success", "description", "timestamp"}
            /\ req[r].res[1].body.success = TRUE
            /\ req[r].res[1].body.description = req[r].text
            /\ req[r].res[1].body.timestamp \in 0..now

C7_Witness ==
    \E r \in RequestIds :
        /\ req[r].outcome = "resolved"
        /\ req[r].text = <<"#"," ","A","\n">>
        /\ req[r].res[1].status = 200
        /\ req[r].res[1].body.description = <<"#"," ","A","\n">>

\* C8: a request causes no call to the model when validation or the
\* credential check fails, exactly one call otherwise, and never a second
\* call, also after a failure
C8_AtMostOneCall ==
    \A r \in RequestIds :
        /\ req[r].calls <= 1
        /\ Received(r) =>
              req[r].calls = IF NoImage(r) \/ NoCredential THEN 0 ELSE 1

C8_Witness ==
    \E r \in RequestIds :
        /\ req[r].outcome = "failed"
        /\ req[r].pc = "done"
        /\ req[r].res[1].status = 500
        /\ req[r].calls = 1

\* C9: the MIME type passed to the model is the request's mimeType when that
\* is a non-empty string, and "image/jpeg" when the field is absent
C9_MimeTypePassed ==
    \A r \in RequestIds :
        req[r].calls > 0 =>
            /\ (req[r].body.mimeType.type = "string" /\ req[r].body.mimeType.value # << >>)
                  => req[r].parts.mimeType = req[r].body.mimeType
            /\ req[r].body.mimeType = Undefined
                  => req[r].parts.mimeType = Str(ImageJpeg)
            /\ req[r].parts.data = req[r].body.image

C9_Witness ==
    \E r, q \in RequestIds :
        /\ req[r].body.mimeType = Str(ImagePng)
        /\ req[r].parts.mimeType = Str(ImagePng)
        /\ req[q].calls = 1
        /\ req[q].body.mimeType = Undefined
        /\ req[q].parts.mimeType = Str(ImageJpeg)

\* ------------------------------------------------------------------------
\* Properties of the uploader together with the relay
\* ------------------------------------------------------------------------

\* C10: when the uploader analyzes a file of declared type T, the body it
\* sends carries T in the relay's mimeType field, so that the relay passes T
\* to the external model
C10_ForwardsFileType ==
    \A c \in CallIds :
        (call[c].sent /\ req[call[c].request].calls > 0) =>
            /\ req[call[c].request].body.mimeType = Str(FileType(call[c].file))
            /\ req[call[c].request].parts.mimeType = Str(FileType(call[c].file))

\* the response fetch resolves with for call c
Answer(c) == req[call[c].request].res[1]

\* C11: when the relay answers an analyze call with a non-2xx response that
\* carries an error message, the Error view shows that message; the generic
\* text appears only when the response carries none
C11_ShowsRelayMessage ==
    [][\A c \in CallIds :
          (/\ FetchResolve(c)
           /\ Answer(c).status \notin 200..299
           /\ "error" \in DOMAIN Answer(c).body)
             => ui'.errorMessage = Answer(c).body.error]_vars

Sections == {"upload", "preview", "results", "error"}

Visible == {s \in Sections : ~ui.hidden[s]}

\* C12: after any sequence of events exactly one of the Upload, Preview,
\* Results and Error sections is visible; in particular Results and Error are
\* never visible together
C12_ExactlyOneView ==
    /\ Cardinality(Visible) = 1
    /\ ~({"results", "error"} \subseteq Visible)

\* the Preview is back on screen after an analysis failed and a result of an
\* earlier analysis is still in the hidden Results section
C12_Witness ==
    /\ Visible = {"preview"}
    /\ ui.errorMessage # ""
    /\ ui.descriptionContent # NoContent

Running(c) == call[c].pc \in {"reading", "fetching"}

\* C13: at most one analyze call is in flight; the Analyze control is
\* disabled from the start of a call until the call has completed, so a
\* click in between starts nothing, and it is enabled again once the call
\* has completed
C13_OneCallInFlight ==
    /\ Cardinality({c \in CallIds : Running(c)}) <= 1
    /\ ui.analyzeBtnDisabled <=> \E c \in CallIds : Running(c)

\* a second call is in flight after the first has completed
C13_Witness ==
    /\ call[1] = DoneCall
    /\ call[2].pc = "fetching"
    /\ call[2].sent
    /\ ui.analyzeBtnDisabled

\* C14: an analyze call is completed in the Preview state; when it succeeds
\* the view moves to Results with the description of the response, and when
\* it fails in any way (network failure, non-2xx response, unreadable
\* response body, file-read failure) the view moves to Error with a message:
\* the view is never Preview right after the call has completed
C14_CompletionLeavesPreview ==
    [][\A c \in CallIds :
          (Running(c) /\ call'[c] = DoneCall) =>
              /\ ui.hidden = PreviewView
              /\ IF FetchResolve(c) /\ Answer(c).status \in 200..299
                 THEN /\ ui'.hidden = ResultsView
                      /\ ui'.descriptionContent.formatted
                            = FormatDescription(Answer(c).body.description)
                 ELSE /\ ui'.hidden = ErrorView
                      /\ ui'.errorMessage # ""]_vars

\* a call has ended in Results after an earlier one ended in Error
C14_Witness ==
    /\ call[2] = DoneCall
    /\ ui.hidden = ResultsView
    /\ ui.errorMessage # ""

ImageFiles == {f \in Files : StartsWith(FileType(f), ImagePrefix)}

\* the input fires a change event for f, or f is dropped on the upload card
Selects(f) == (PickFile(f) /\ f # ui.imageInputValue) \/ DropFile(f)

\* C15 as stated: a file whose declared type begins with "image/" that was
\* selected or dropped is eventually on show in the Preview state as the
\* selected file
C15_EventuallyPreview ==
    \A f \in ImageFiles :
        (ui.selectedImageFile = f /\ readers[f] > 0)
            ~> (ui.hidden = PreviewView /\ ui.selectedImageFile = f)

\* C15: selecting or dropping a file whose declared type begins with
\* "image/" records it as the selected file at once and starts a read of it;
\* the view moves to Preview, showing the image read, when a read completes,
\* and a read that fails changes nothing; a file of any other declared type
\* changes neither the view state nor the selected file nor the preview
C15_Selection ==
    [][\A f \in Files :
          /\ (Selects(f) /\ f \in ImageFiles) =>
                 /\ ui'.selectedImageFile = f
                 /\ readers'[f] = readers[f] + 1
                 /\ ui'.hidden = ui.hidden
          /\ (Selects(f) /\ f \notin ImageFiles) =>
                 /\ ui'.hidden = ui.hidden
                 /\ ui'.selectedImageFile = ui.selectedImageFile
                 /\ ui'.selectedImage = ui.selectedImage
                 /\ ui'.previewImageSrc = ui.previewImageSrc
                 /\ readers' = readers
          /\ ReaderOnload(f) =>
                 /\ ui'.hidden = PreviewView
                 /\ ui'.previewImageSrc = Str(DataURL(f))
                 /\ ui'.selectedImageFile = ui.selectedImageFile
          /\ ReaderOnerror(f) => ui' = ui]_vars

\* a.png is on show as the selected file, and a text file picked after it
\* has changed nothing
C15_Witness ==
    /\ ui.hidden = PreviewView
    /\ ui.selectedImageFile = "a.png"
    /\ ui.previewImageSrc = Str(DataURL("a.png"))
    /\ ui.imageInputValue = "c.txt"

C17_Retry ==
    [][/\ RetryClick =>
            /\ ui.hidden = ErrorView
            /\ ui'.hidden = PreviewView
            /\ ui'.selectedImageFile = ui.selectedImageFile
            /\ ~ui'.analyzeBtnDisabled
            /\ UNCHANGED <<call, req, readers>>
       /\ \A c \in CallIds :
            AnalyzeClick(c) => call'[c].file = ui.selectedImageFile]_vars

\* after a failed analysis and a retry the same file is being analyzed again
C17_Witness ==
    /\ call[1] = DoneCall
    /\ ui.errorMessage # ""
    /\ ui.descriptionContent = NoContent
    /\ ui.hidden = PreviewView
    /\ Running(2)
    /\ call[2].file = ui.selectedImageFile
    /\ ui.imageInputValue = NoFile

\* ------------------------------------------------------------------------
\* Properties of the relay under /health and /analyze together
\* ------------------------------------------------------------------------

\* the external model's outcome for request r
Outcome(r) == <<req[r].outcome, req[r].text, req[r].error>>

\* a response without the time stamp of its body
Untimed(response) ==
    [status |-> response.status,
     body |-> [k \in DOMAIN response.body \ {"timestamp"} |-> response.body[k]]]

\* C18 as stated: the response to a request (and the call made for it) is a
\* function only of the request's body, the credential and the external
\* model's outcome for it, whatever other requests are interleaved with it
C18_FunctionOfRequest ==
    \A r, q \in RequestIds :
        (Received(r) /\ Received(q) /\ req[r].body = req[q].body) =>
            /\ req[r].calls = req[q].calls
            /\ req[r].parts = req[q].parts
            /\ Outcome(r) = Outcome(q) => req[r].res = req[q].res

\* C18: the relay keeps no state across requests: apart from the time stamp
\* of a success response, the response to a request (and the call made for
\* it) is a function only of the request's body, the credential and the
\* external model's outcome for it, under every interleaving with other
\* /analyze and /health requests
C18_Stateless ==
    \A r, q \in RequestIds :
        (Received(r) /\ Received(q) /\ req[r].body = req[q].body) =>
            /\ req[r].calls = req[q].calls
            /\ req[r].parts = req[q].parts
            /\ Outcome(r) = Outcome(q) =>
                  /\ req[r].pc = req[q].pc
                  /\ Len(req[r].res) = Len(req[q].res)
                  /\ \A i \in 1..Len(req[r].res) :
                        Untimed(req[r].res[i]) = Untimed(req[q].res[i])

\* two requests with the same body got the same text from the model at
\* different times, with a /health request answered meanwhile
C18_Witness ==
    /\ req[1].body = req[2].body
    /\ req[1].outcome = "resolved"
    /\ Outcome(1) = Outcome(2)
    /\ req[1].res[1].body.timestamp # req[2].res[1].body.timestamp
    /\ health # << >>

\* C19: GET /health, called any number of times in any credential state and
\* interleaved with /analyze requests, answers 200 with status "OK" and a
\* time stamp not earlier than that of any earlier /health response, and
\* changes nothing on the server
C19_Health ==
    /\ [](\A i \in 1..Len(health) :
             /\ health[i].status = 200
             /\ health[i].body.status = "OK"
             /\ \A j \in 1..i : health[j].body.timestamp <= health[i].body.timestamp)
    /\ [][GetHealth => UNCHANGED <<GEMINI_API_KEY, req>>]_vars

\* two /health responses at different times, with no credential and an
\* /analyze request answered and another one waiting for the model
C19_Witness ==
    /\ Len(health) = 2
    /\ health[1].body.timestamp < health[2].body.timestamp
    /\ \E r \in RequestIds : req[r].pc = "done"
    /\ NoCredential

\* ------------------------------------------------------------------------
\* Properties of the formatted description
\* ------------------------------------------------------------------------

\* the text an element shows: its content without the tags
Shown(element) ==
    SelectSeq(element.content, LAMBDA ch : ch \notin {"<strong>", "</strong>"})

\* C20: for every description returned with HTTP 200, no line of the
\* formatted text in the Results section contains a raw "**" or begins with
\* "#", whatever the description's lines are (headings with bold markers,
\* unpaired "**", leading white space)
C20_NoRawMarkers ==
    ui.hidden = ResultsView =>
        \A i \in DOMAIN ui.descriptionContent.formatted :
            LET line == Shown(ui.descriptionContent.formatted[i])
            IN  /\ ~Contains(line, <<"*", "*">>)
                /\ ~StartsWith(line, <<"#">>)

\* the ends of the lines of text: before its first character, its line
\* breaks, and after its last character
Breaks(text) == {0} \cup Positions(text, "\n") \cup {Len(text) + 1}

\* the line of text that starts after break a
LineAt(text, a) ==
    LET next == CHOOSE b \in Breaks(text) :
                    b > a /\ \A x \in Breaks(text) : x > a => b <= x
    IN  SubSeq(text, a + 1, next - 1)

\* the breaks after which a line with something other than white space starts
InkedLines(text) ==
    { a \in Breaks(text) \ {Len(text) + 1} :
        \E k \in 1..Len(LineAt(text, a)) : LineAt(text, a)[k] \notin WhiteSpace }

\* the number of the line after break a among the lines of InkedLines
Rank(text, a) == Cardinality({ b \in InkedLines(text) : b <= a })

\* a line from its first character that is not white space
Inked(line) ==
    LET first == CHOOSE k \in 1..Len(line) :
                     /\ line[k] \notin WhiteSpace
                     /\ \A j \in 1..(k - 1) : line[j] \in WhiteSpace
    IN  SubSeq(line, first, Len(line))

\* a digit, or several, and then "."
StartsWithNumber(t) ==
    \E n \in 1..(Len(t) - 1) : t[n + 1] = "." /\ \A j \in 1..n : t[j] \in Digits

\* the kind of a line: the first description that fits
KindOf(line) ==
    LET t == Inked(line)
    IN  IF t[1] = "#" THEN "heading"
        ELSE IF Contains(line, <<"*", "*">>) THEN "bold"
        ELSE IF t[1] \in {"-", "*"} \/ StartsWithNumber(t) THEN "list"
        ELSE "plain"

TagOf(kind) ==
    IF kind = "heading" THEN "h4" ELSE IF kind = "list" THEN "li" ELSE "p"

\* call c ends with a 200 response
Displays(c) == FetchResolve(c) /\ Answer(c).status = 200

IsSuffix(s, t) == Len(s) <= Len(t) /\ SubSeq(t, Len(t) - Len(s) + 1, Len(t)) = s

\* C22: the element of a line that is a list item (the line starts, after
\* white space if any, with "-", "*" or a number and ".") shows the line
\* without its marker: text that follows the marker
C22_MarkerRemoved ==
    [][\A c \in CallIds :
          Displays(c) =>
              LET text == Answer(c).body.description
                  out == ui'.descriptionContent.formatted
              IN  \A a \in InkedLines(text) :
                      KindOf(LineAt(text, a)) = "list" =>
                          IsSuffix(out[Rank(text, a)].content,
                                   Drop(Inked(LineAt(text, a)), 1))]_vars

\* the number of a base64 digit
Base64Value(ch) == (CHOOSE k \in 1..64 : Base64Alphabet[k] = ch) - 1

\* the bytes a base64 text stands for; nothing when the text is not base64
RECURSIVE Base64Decode(_)
Base64Decode(s) ==
    IF Len(s) = 0 THEN << >>
    ELSE IF Len(s) < 4 \/ s[1] \notin Range(Base64Alphabet)
                      \/ s[2] \notin Range(Base64Alphabet)
    THEN <<"not base64">>
    ELSE IF s[3] = "=" /\ s[4] = "=" /\ Len(s) = 4
    THEN << (Base64Value(s[1]) * 64 + Base64Value(s[2])) \div 16 >>
    ELSE IF s[3] \notin Range(Base64Alphabet) THEN <<"not base64">>
    ELSE IF s[4] = "=" /\ Len(s) = 4
    THEN LET n == (Base64Value(s[1]) * 4096 + Base64Value(s[2]) * 64
                     + Base64Value(s[3])) \div 4
         IN  << n \div 256, n % 256 >>
    ELSE IF s[4] \notin Range(Base64Alphabet) THEN <<"not base64">>
    ELSE LET n == Base64Value(s[1]) * 262144 + Base64Value(s[2]) * 4096
                    + Base64Value(s[3]) * 64 + Base64Value(s[4])
         IN  << n \div 65536, (n \div 256) % 256, n % 256 >>
             \o Base64Decode(SubSeq(s, 5, Len(s)))

\* "data:<mime>;base64," for file f
DataURLPrefix(f) ==
    <<"d","a","t","a",":">> \o FileType(f) \o <<";","b","a","s","e","6","4",",">>

\* C23: the image of the body a call sends is the data URL of the call's
\* file without its "data:<mime>;base64," prefix, the relay receives this
\* string, and decoding it gives the bytes of the file
C23_ImageIsPayload ==
    \A c \in CallIds :
        call[c].pc = "fetching" =>
            LET f == call[c].file
                image == call[c].body.image
            IN  /\ image # Undefined
                /\ DataURLPrefix(f) \o image.value = DataURL(f)
                /\ Base64Decode(image.value) = FileBytes(f)
                /\ (call[c].sent /\ req[call[c].request].pc # "closed") =>
                       req[call[c].request].body.image = image

\* the relay has the three bytes of b.jpg
C23_Witness ==
    \E c \in CallIds :
        /\ call[c].pc = "fetching"
        /\ call[c].sent
        /\ call[c].file = "b.jpg"
        /\ Len(call[c].body.image.value) = 4
        /\ Base64Decode(req[call[c].request].body.image.value) = <<66, 250, 255>>

\* no clipboard write and no timer of the copy button is pending
CopyQuiet == ui.writes = << >> /\ ui.timers = << >>

\* C24: once the clipboard writes of all copy clicks have succeeded and the 2
\* seconds of each success indicator have passed, the copy button shows its
\* original label and style again, also after clicks that followed each other
\* within the 2 seconds
C24_IndicatorTransient == CopyQuiet => ui.copyBtn = InitialCopyBtn

\* C25: whenever the Preview section is visible a file is selected; so no
\* read still pending when the app was reset brings Preview back before a new
\* file is selected
C25_PreviewHasFile == PreviewControls(ui) => ui.selectedImageFile # NoFile

\* C26: when files were selected one after the other and every read has
\* completed, in whichever order, the preview shows the image of the file
\* recorded as selected, the one an Analyze click would send
C26_PreviewIsSelected ==
    (PendingReaders = 0 /\ PreviewControls(ui)) =>
        ui.previewImageSrc = Str(DataURL(ui.selectedImageFile))

\* C27: when a call ends and the Results section is shown, the file the
\* call's description was produced from is the file selected at that moment,
\* also when another file was chosen while the call was in flight
C27_ResultOfSelected ==
    [][\A c \in CallIds :
          (FetchResolve(c) /\ ResultsControls(ui')) =>
              call[c].file = ui'.selectedImageFile]_vars

====
